---- MODULE Spec2Model ----
(***************************************************************************)
(* A model of pyNCMDUMP's ncm_converter.py.                                *)
(*                                                                         *)
(*   Spec        one call of dump_single_file past the skip checks: the    *)
(*               container parser, the key-box derivation, the audio       *)
(*               decoder and the write of the output file.                 *)
(*   SpecKeyBox  the key-box derivation loop, one iteration per step.      *)
(*   SpecDecode  the audio decoding loop over payloads of several chunks.  *)
(*   SpecMux     merge_audio_with_cover and the external muxing process.   *)
(*   SpecBatch   dump: two batch runs over a list of files, sequential or  *)
(*               through the worker pool.                                  *)
(***************************************************************************)
EXTENDS Integers, Sequences, FiniteSets, TLC

VARIABLES
    \* dump_single_file
    file, ffmpeg_path, pc, pos, key_data, key_box, i, last_byte, key_offset,
    meta_data, image_data, audio_start, m, chunk_length, err, out, short,
    \* merge_audio_with_cover and the muxing process
    mux_pc, blob_left, pipe_buf, pipe_srv, proc_cli, proc_want, proc_exit,
    \* dump and the files of the target folders
    all_filepaths, n_workers, target_folder, fs, run, status, first_status,
    taskq, wtask, wpc, wcur, dispatched, converting, writes, task_error

convVars == <<file, ffmpeg_path, pc, pos, key_data, key_box, i, last_byte,
              key_offset, meta_data, image_data, audio_start, m, chunk_length,
              err, out, short>>

muxVars == <<mux_pc, blob_left, pipe_buf, pipe_srv, proc_cli, proc_want, proc_exit>>

batchVars == <<all_filepaths, n_workers, target_folder, fs, run, status,
               first_status, taskq, wtask, wpc, wcur, dispatched, converting,
               writes, task_error>>

vars == <<convVars, muxVars, batchVars>>

(***************************************************************************)
(* Bytes                                                                   *)
(***************************************************************************)
Byte == 0..255

Min(a, b) == IF a < b THEN a ELSE b

Max(a, b) == IF a < b THEN b ELSE a

RECURSIVE XorBits(_, _, _)
XorBits(a, b, n) ==
    IF n = 0 THEN 0
    ELSE ((a + b) % 2) + 2 * XorBits(a \div 2, b \div 2, n - 1)

\* a ^ b on bytes, tabulated once
XorTab == [a \in Byte |-> [b \in Byte |-> XorBits(a, b, 8)]]

Xor(a, b) == XorTab[a][b]

\* s[0:n]
Take(s, n) == SubSeq(s, 1, Min(Max(n, 0), Len(s)))

\* s[n:]
Drop(s, n) == SubSeq(s, Min(n, Len(s)) + 1, Len(s))

(***************************************************************************)
(* Key cipher engine                                                       *)
(***************************************************************************)
\* unpad = lambda s: s[0:-s[-1]]; the caller has checked that s is not empty.
\* Python's s[0:-p] is s[0:0] for p = 0 and empty for p >= len(s).
UnpadKeepsAll(s) ==
    LET p == s[Len(s)]
    IN IF p >= Len(s) THEN <<>> ELSE Take(s, Len(s) - p)

Unpad(s) ==
    LET p == s[Len(s)]
    IN IF p = 0 \/ p >= Len(s) THEN <<>> ELSE Take(s, Len(s) - p)

\* key_box = bytearray(range(256))
IdentityBox == [b \in Byte |-> b]

\* key_box[i] = key_box[c]; key_box[c] = swap, with swap = key_box[i]
SwapBoxLosesSwap(box, a, c) == [box EXCEPT ![a] = box[c]]

SwapBox(box, a, c) == [box EXCEPT ![a] = box[c], ![c] = box[a]]

\* one iteration of the loop of lines 142-150 on st = [box, i, last, off]:
\*   swap = key_box[i]; c = (swap + last_byte + key_data[key_offset]) & 0xff
\*   key_offset += 1; if key_offset >= key_length: key_offset = 0
\*   key_box[i] = key_box[c]; key_box[c] = swap; last_byte = c
KsaIter(st, key) ==
    LET c == (st.box[st.i] + st.last + key[st.off + 1]) % 256
    IN [box  |-> SwapBox(st.box, st.i, c),
        i    |-> st.i + 1,
        last |-> c,
        off  |-> IF st.off + 1 >= Len(key) THEN 0 ELSE st.off + 1]

\* lines 137-141: key_box = bytearray(range(256)); last_byte = 0; key_offset = 0
KsaStart == [box |-> IdentityBox, i |-> 0, last |-> 0, off |-> 0]

\* the iterations of the loop from st.i up to (not including) iteration `to`,
\* for a non-empty key; split in halves to keep the evaluation shallow
RECURSIVE KsaRun(_, _, _)
KsaRun(st, key, to) ==
    IF st.i >= to THEN st
    ELSE IF st.i + 1 = to THEN KsaIter(st, key)
    ELSE KsaRun(KsaRun(st, key, (st.i + to) \div 2), key, to)

\* for i in range(256)
KeyBoxOf(key) == KsaRun(KsaStart, key, 256).box

(***************************************************************************)
(* Audio stream decoder                                                    *)
(***************************************************************************)
\* f.read(0x8000)
ReadSizeOdd == 32768 - 100

ReadSize == 32768

\* key_box[(key_box[j] + key_box[(key_box[j] + j) & 0xff]) & 0xff]
MaskShallow(box, j) == box[(box[j] + j) % 256]

Mask(box, j) == box[(box[j] + box[(box[j] + j) % 256]) % 256]

\* byte number k (from 1) of container f, for the bytes after the image
\* length field: generated from the container's seed
FileByte(f, k) == (f.seed + 37 * k) % 256

\* the decoded chunk of the n bytes read with the cursor at p:
\*   for i in range(1, chunk_length + 1): j = i & 0xff; chunk[i - 1] ^= mask
DecodeChunk(box, f, p, n) ==
    [k \in 1..n |-> Xor(FileByte(f, p + k), Mask(box, k % 256))]

(***************************************************************************)
(* Input containers                                                        *)
(*                                                                         *)
(* A container is described by what the parser meets in it, in order, and  *)
(* by its size in bytes, which decides where reads fall short:             *)
(*   header    the first 8 bytes                                           *)
(*   keyLen    the u32 key length field                                    *)
(*   keyPlain  the bytes of the key block after the 0x64 mask and the      *)
(*             AES-ECB decryption with the core key.  ECB decrypts each    *)
(*             16-byte block on its own and is a bijection on blocks, so   *)
(*             every plaintext is the image of some key block and a block  *)
(*             cut short at a multiple of 16 decrypts to a prefix.         *)
(*   metaLen   the u32 metadata length field                               *)
(*   meta      what lines 159-162 make of the metadata block: "raise"      *)
(*             (base64, AES, unpad, UTF-8 or JSON error), "nokey" (JSON    *)
(*             without "format"), or the format tag                        *)
(*   imgLen    the u32 cover image length field                            *)
(*   seed      generates the bytes that follow the image length field      *)
(***************************************************************************)
MaxImage == 1

MaxAudio == 2

MaxMissing == 1

\* binascii.b2a_hex(header) == b'4354454e4644414d', "CTENFDAM"
Magic == <<67, 84, 69, 78, 70, 68, 65, 77>>

Headers == {Magic, [Magic EXCEPT ![8] = 78]}

\* "neteasecloudmusic" stands in front of the raw key in a genuine key block
KeyPlain(n, p, b) ==
    [k \in 1..n |-> IF k = n THEN p ELSE IF k <= 17 THEN 110 ELSE (b + k) % 256]

KeyCases ==
    {[keyLen |-> 0,  keyPlain |-> <<>>],
     [keyLen |-> 20, keyPlain |-> KeyPlain(20, 1, 0)],
     [keyLen |-> 16, keyPlain |-> KeyPlain(16, 1, 0)],
     [keyLen |-> 32, keyPlain |-> KeyPlain(32, 0, 7)],
     [keyLen |-> 32, keyPlain |-> KeyPlain(32, 13, 7)],
     [keyLen |-> 32, keyPlain |-> KeyPlain(32, 14, 200)],
     [keyLen |-> 32, keyPlain |-> KeyPlain(32, 15, 7)],
     [keyLen |-> 32, keyPlain |-> KeyPlain(32, 32, 7)],
     [keyLen |-> 32, keyPlain |-> KeyPlain(32, 33, 7)]}

\* a metadata block of 66 bytes holds 'music:{"format":"mp3"}' (22 bytes,
\* padded to 32, base64 to 44, after 22 bytes of prefix)
MetaCases ==
    {[metaLen |-> 0,  meta |-> "raise"],
     [metaLen |-> 66, meta |-> "raise"],
     [metaLen |-> 66, meta |-> "nokey"],
     [metaLen |-> 66, meta |-> "mp3"],
     [metaLen |-> 66, meta |-> "flac"]}

\* the offset at which each section of a container of this layout ends
SectionEnds(kc, mc, img, audio) ==
    LET k == 14 + kc.keyLen
        t == k + 4 + mc.metaLen
    IN {8, 10, 14, k, k + 4, t, t + 4, t + 9, t + 13, t + 13 + img,
        t + 13 + img + audio}

\* the sizes of a container of this layout, whole or cut short before the
\* end of one of its sections
Sizes(kc, mc, img, audio) ==
    {e - d : e \in SectionEnds(kc, mc, img, audio), d \in 0..MaxMissing} \cap Nat

Container(h, kc, mc, img, sz) ==
    [header |-> h, keyLen |-> kc.keyLen, keyPlain |-> kc.keyPlain,
     metaLen |-> mc.metaLen, meta |-> mc.meta, imgLen |-> img, seed |-> 5,
     size |-> sz]

\* len(f.read(n)) with the cursor at p: a read past the end returns what is left
ReadLen(f, p, n) == Min(n, Max(f.size - p, 0))

(***************************************************************************)
(* dump_single_file, lines 114-191                                         *)
(***************************************************************************)
NoBox == [b \in {} |-> 0]

NoErr == [exc |-> "none", line |-> 0]

NoFile == [ext |-> "none", data |-> <<>>]

Channels == {"img", "audio"}

\* merge_audio_with_cover not entered
MuxIdle ==
    /\ mux_pc = "idle"
    /\ blob_left = [c \in Channels |-> 0]
    /\ pipe_buf = [c \in Channels |-> 0]
    /\ pipe_srv = [c \in Channels |-> "none"]
    /\ proc_cli = [c \in Channels |-> "none"]
    /\ proc_want = "none"
    /\ proc_exit = "none"

MaxWorkers == 2

\* dump not entered
BatchIdle ==
    /\ all_filepaths = <<>>
    /\ n_workers = 1
    /\ target_folder = "none"
    /\ fs = {}
    /\ run = 0
    /\ status = "idle"
    /\ first_status = "idle"
    /\ taskq = <<>>
    /\ wtask = [w \in 1..MaxWorkers |-> <<>>]
    /\ wpc = [w \in 1..MaxWorkers |-> "idle"]
    /\ wcur = [w \in 1..MaxWorkers |-> 0]
    /\ dispatched = {}
    /\ converting = {}
    /\ writes = <<>>
    /\ task_error = FALSE

\* an exception leaves dump_single_file: only KeyboardInterrupt is caught
Raise(exc, line) ==
    /\ pc' = "failed"
    /\ err' = [exc |-> exc, line |-> line]

\* assert binascii.b2a_hex(header) == b'4354454e4644414d'
HeaderAny(header) == TRUE

HeaderOK(header) == header = Magic

\* lines 120-124
ReadHeader ==
    /\ pc = "open"
    /\ LET n == ReadLen(file, 0, 8)
       IN /\ pos' = n
          /\ IF HeaderOK(Take(file.header, n))
             THEN pc' = "key" /\ err' = err
             ELSE Raise("AssertionError", 124)
    /\ UNCHANGED <<file, ffmpeg_path, key_data, key_box, i, last_byte,
                   key_offset, meta_data, image_data, audio_start, m,
                   chunk_length, out, short>>
    /\ UNCHANGED <<muxVars, batchVars>>

\* lines 125-141
ReadKey ==
    /\ pc = "key"
    /\ LET at   == pos + 2
           n4   == ReadLen(file, at, 4)
           n    == ReadLen(file, at + 4, file.keyLen)
           s    == Take(file.keyPlain, n)
       IN IF n4 < 4
          THEN /\ Raise("struct.error", 127)
               /\ pos' = at + n4
               /\ UNCHANGED <<key_data, key_box, i, last_byte, key_offset, short>>
          ELSE /\ pos' = at + 4 + n
               /\ short' = IF n < file.keyLen THEN short \cup {"key"} ELSE short
               /\ IF n % 16 # 0
                  THEN /\ Raise("ValueError", 134)
                       /\ UNCHANGED <<key_data, key_box, i, last_byte, key_offset>>
                  ELSE IF n = 0
                  THEN /\ Raise("IndexError", 134)
                       /\ UNCHANGED <<key_data, key_box, i, last_byte, key_offset>>
                  ELSE /\ key_data' = Drop(Unpad(s), 17)
                       /\ key_box' = KsaStart.box
                       /\ i' = KsaStart.i
                       /\ last_byte' = KsaStart.last
                       /\ key_offset' = KsaStart.off
                       /\ pc' = "ksa"
                       /\ err' = err
    /\ UNCHANGED <<file, ffmpeg_path, meta_data, image_data, audio_start, m,
                   chunk_length, out>>
    /\ UNCHANGED <<muxVars, batchVars>>

\* lines 142-150, the whole loop: key_data[key_offset] raises on an empty key
DeriveKeyBox ==
    /\ pc = "ksa"
    /\ IF Len(key_data) = 0
       THEN /\ Raise("IndexError", 144)
            /\ UNCHANGED <<key_box, i, last_byte, key_offset>>
       ELSE LET st == KsaRun([box |-> key_box, i |-> i, last |-> last_byte,
                              off |-> key_offset], key_data, 256)
            IN /\ key_box' = st.box
               /\ i' = st.i
               /\ last_byte' = st.last
               /\ key_offset' = st.off
               /\ pc' = "meta"
               /\ err' = err
    /\ UNCHANGED <<file, ffmpeg_path, pos, key_data, meta_data, image_data,
                   audio_start, m, chunk_length, out, short>>
    /\ UNCHANGED <<muxVars, batchVars>>

\* lines 159-162 on a block of n bytes: up to 22 bytes leave nothing to
\* decode and unpad raises on the empty string
MetaDecode(f, n) == IF n <= 22 THEN "raise" ELSE f.meta

\* lines 152-162
ReadMeta ==
    /\ pc = "meta"
    /\ LET n4 == ReadLen(file, pos, 4)
           n  == ReadLen(file, pos + 4, file.metaLen)
       IN IF n4 < 4
          THEN /\ Raise("struct.error", 153)
               /\ pos' = pos + n4
               /\ UNCHANGED <<meta_data, short>>
          ELSE /\ pos' = pos + 4 + n
               /\ short' = IF n < file.metaLen THEN short \cup {"meta"} ELSE short
               /\ IF MetaDecode(file, n) = "raise"
                  THEN /\ Raise("MetadataError", 161)
                       /\ UNCHANGED meta_data
                  ELSE /\ meta_data' = MetaDecode(file, n)
                       /\ pc' = "image"
                       /\ err' = err
    /\ UNCHANGED <<file, ffmpeg_path, key_data, key_box, i, last_byte,
                   key_offset, image_data, audio_start, m, chunk_length, out>>
    /\ UNCHANGED <<muxVars, batchVars>>

\* lines 164-170; image_data is kept by its length
ReadImage ==
    /\ pc = "image"
    /\ LET c4 == ReadLen(file, pos, 4)
           at == pos + 4 + 5
           n4 == ReadLen(file, at, 4)
           n  == ReadLen(file, at + 4, file.imgLen)
       IN IF c4 < 4
          THEN /\ Raise("struct.error", 165)
               /\ pos' = pos + c4
               /\ UNCHANGED <<image_data, audio_start, short>>
          ELSE IF n4 < 4
          THEN /\ Raise("struct.error", 168)
               /\ pos' = at + n4
               /\ UNCHANGED <<image_data, audio_start, short>>
          ELSE /\ pos' = at + 4 + n
               /\ image_data' = n
               /\ audio_start' = at + 4 + n
               /\ short' = IF n < file.imgLen THEN short \cup {"image"} ELSE short
               /\ IF meta_data = "nokey"
                  THEN Raise("KeyError", 170)
                  ELSE pc' = "decode" /\ err' = err
    /\ UNCHANGED <<file, ffmpeg_path, key_data, key_box, i, last_byte,
                   key_offset, meta_data, m, chunk_length, out>>
    /\ UNCHANGED <<muxVars, batchVars>>

\* lines 174-184, one pass of the while loop
ReadChunk ==
    /\ pc = "decode"
    /\ LET n == ReadLen(file, pos, ReadSize)
       IN /\ chunk_length' = n
          /\ pos' = pos + n
          /\ IF n = 0
             THEN pc' = "write" /\ m' = m
             ELSE pc' = pc /\ m' = m \o DecodeChunk(key_box, file, pos, n)
    /\ UNCHANGED <<file, ffmpeg_path, key_data, key_box, i, last_byte,
                   key_offset, meta_data, image_data, audio_start, err, out, short>>
    /\ UNCHANGED <<muxVars, batchVars>>

\* lines 187-191
WriteOutput ==
    /\ pc = "write"
    /\ ~ffmpeg_path
    /\ out' = [ext |-> meta_data, data |-> m]
    /\ pc' = "done"
    /\ UNCHANGED <<file, ffmpeg_path, pos, key_data, key_box, i, last_byte,
                   key_offset, meta_data, image_data, audio_start, m,
                   chunk_length, err, short>>
    /\ UNCHANGED <<muxVars, batchVars>>

\* lines 185-186 and 90: the muxing process writes the output and exits 0, or
\* exits with another code, having written the output or not
Merge ==
    /\ pc = "write"
    /\ ffmpeg_path
    /\ \E code \in {0, 1}, written \in BOOLEAN :
         /\ code = 0 => written
         /\ out' = IF written THEN [ext |-> meta_data, data |-> m] ELSE out
         /\ IF code = 0
            THEN pc' = "done" /\ err' = err
            ELSE Raise("AssertionError", 90)
    /\ UNCHANGED <<file, ffmpeg_path, pos, key_data, key_box, i, last_byte,
                   key_offset, meta_data, image_data, audio_start, m,
                   chunk_length, short>>
    /\ UNCHANGED <<muxVars, batchVars>>

Init ==
    /\ \E h \in Headers, kc \in KeyCases, mc \in MetaCases,
          img \in 0..MaxImage, audio \in 0..MaxAudio :
          \E sz \in Sizes(kc, mc, img, audio) :
              file = Container(h, kc, mc, img, sz)
    /\ ffmpeg_path \in BOOLEAN
    /\ pc = "open"
    /\ pos = 0
    /\ key_data = <<>>
    /\ key_box = NoBox
    /\ i = 0
    /\ last_byte = 0
    /\ key_offset = 0
    /\ meta_data = "none"
    /\ image_data = 0
    /\ audio_start = 0
    /\ m = <<>>
    /\ chunk_length = 0
    /\ err = NoErr
    /\ out = NoFile
    /\ short = {}
    /\ MuxIdle
    /\ BatchIdle

Next ==
    \/ ReadHeader
    \/ ReadKey
    \/ DeriveKeyBox
    \/ ReadMeta
    \/ ReadImage
    \/ ReadChunk
    \/ WriteOutput
    \/ Merge

Spec == Init /\ [][Next]_vars

(***************************************************************************)
(* Claims on the container parser (Spec)                                   *)
(***************************************************************************)
\* the key block as decrypted: n bytes read at offset 14, n a positive
\* multiple of 16, in a container whose magic was accepted
KeyBlockDecrypted(f) ==
    /\ f.size >= 14
    /\ f.header = Magic
    /\ ReadLen(f, 14, f.keyLen) > 0
    /\ ReadLen(f, 14, f.keyLen) % 16 = 0

\* its last byte p is 0 or exceeds the block length, or nothing is left
\* after the padding and the first 17 bytes are dropped
BadPadding(f) ==
    LET n == ReadLen(f, 14, f.keyLen)
        p == f.keyPlain[n]
    IN p = 0 \/ p > n \/ n - p <= 17

\* C4: when a length field (key block, metadata block, cover image) exceeds
\* the bytes left in the file, the conversion fails and writes no output; in
\* particular never a successful conversion with a shortened image.
C4_TruncatedContainerFails ==
    short # {} => pc # "done" /\ out = NoFile

\* C5: a decrypted key block with padding byte 0 or above the block length,
\* or with an empty remainder, makes the conversion fail in the key stage,
\* before any key box is derived and before any audio byte is decoded; no
\* key box is built from an empty raw key.
C5_BadPaddingRejected ==
    /\ KeyBlockDecrypted(file) /\ BadPadding(file) /\ pc \notin {"open", "key", "ksa"}
         => /\ pc = "failed"
            /\ err = [exc |-> "IndexError", line |-> 144]
            /\ key_data = <<>>
            /\ key_box = IdentityBox
            /\ meta_data = "none"
            /\ m = <<>>
            /\ out = NoFile
    /\ pc \in {"meta", "image", "decode", "write", "done"} => key_data # <<>>
    /\ key_data = <<>> => key_box \in {NoBox, IdentityBox} /\ m = <<>>

C5_Witness ==
    /\ KeyBlockDecrypted(file)
    /\ file.keyPlain[ReadLen(file, 14, file.keyLen)] = 0
    /\ pc = "failed"
    /\ err.line = 144

\* C6: a file whose first 8 bytes differ from CTENFDAM fails at the magic
\* check, before any key, metadata, image or audio byte is read, and no
\* output file is written, with or without a muxing tool.
C6_BadMagicRejected ==
    (file.size < 8 \/ file.header # Magic) /\ pc # "open"
        => /\ pc = "failed"
           /\ err = [exc |-> "AssertionError", line |-> 124]
           /\ pos <= 8
           /\ key_data = <<>>
           /\ key_box = NoBox
           /\ meta_data = "none"
           /\ image_data = 0
           /\ m = <<>>
           /\ out = NoFile

C6_Witness ==
    /\ file.size > 8
    /\ file.header # Magic
    /\ ffmpeg_path
    /\ pc = "failed"
    /\ err.line = 124

(***************************************************************************)
(* The key-box derivation, one loop iteration per step (SpecKeyBox)        *)
(***************************************************************************)
MaxKeyLen == 2

KeyBytes == {0, 1, 255}

RawKeys == UNION {[1..n -> KeyBytes] : n \in 0..MaxKeyLen}

\* lines 142-150, one iteration
KsaStep ==
    /\ pc = "ksa"
    /\ i < 256
    /\ IF Len(key_data) = 0
       THEN /\ Raise("IndexError", 144)
            /\ UNCHANGED <<key_box, i, last_byte, key_offset>>
       ELSE LET st == KsaIter([box |-> key_box, i |-> i, last |-> last_byte,
                               off |-> key_offset], key_data)
            IN /\ key_box' = st.box
               /\ i' = st.i
               /\ last_byte' = st.last
               /\ key_offset' = st.off
               /\ UNCHANGED <<pc, err>>
    /\ UNCHANGED <<file, ffmpeg_path, pos, key_data, meta_data, image_data,
                   audio_start, m, chunk_length, out, short>>
    /\ UNCHANGED <<muxVars, batchVars>>

\* the loop is left after iteration 255
KsaExit ==
    /\ pc = "ksa"
    /\ i = 256
    /\ pc' = "meta"
    /\ UNCHANGED <<file, ffmpeg_path, pos, key_data, key_box, i, last_byte,
                   key_offset, meta_data, image_data, audio_start, m,
                   chunk_length, err, out, short>>
    /\ UNCHANGED <<muxVars, batchVars>>

\* a container with a raw key of this content behind it
FileOfKey(key, audio) ==
    LET n == IF Len(key) <= 14 THEN 32 ELSE 48
    IN [header |-> Magic, keyLen |-> n,
        keyPlain |-> [k \in 1..n |-> IF k <= 17 THEN 110
                                     ELSE IF k <= 17 + Len(key) THEN key[k - 17]
                                     ELSE n - 17 - Len(key)],
        metaLen |-> 66, meta |-> "mp3", imgLen |-> 0, seed |-> 5,
        size |-> 14 + n + 4 + 66 + 13 + audio]

\* the state at line 142, the key block of the container read
InitKeyBox ==
    /\ \E key \in RawKeys : file = FileOfKey(key, 0)
    /\ ffmpeg_path \in BOOLEAN
    /\ pc = "ksa"
    /\ pos = 14 + file.keyLen
    /\ key_data = Drop(Unpad(file.keyPlain), 17)
    /\ key_box = KsaStart.box
    /\ i = KsaStart.i
    /\ last_byte = KsaStart.last
    /\ key_offset = KsaStart.off
    /\ meta_data = "none"
    /\ image_data = 0
    /\ audio_start = 0
    /\ m = <<>>
    /\ chunk_length = 0
    /\ err = NoErr
    /\ out = NoFile
    /\ short = {}
    /\ MuxIdle
    /\ BatchIdle

NextKeyBox ==
    \/ KsaStep
    \/ KsaExit

SpecKeyBox == InitKeyBox /\ [][NextKeyBox]_vars

\* C7: for a raw key of positive length the table is a permutation of
\* 0..255 after every swap step and at the end, the key cursor advances and
\* wraps at the key length, and the final table is the one the raw key alone
\* determines.
C7_KeyBoxPermutation ==
    Len(key_data) > 0 /\ pc \in {"ksa", "meta"}
        => /\ {key_box[b] : b \in Byte} = Byte
           /\ DOMAIN key_box = Byte
           /\ key_offset = i % Len(key_data)
           /\ last_byte \in Byte
           /\ i = 256 => key_box = KeyBoxOf(key_data)

C7_Witness ==
    /\ pc = "meta"
    /\ i = 256
    /\ Len(key_data) = 2
    /\ key_box # IdentityBox

(***************************************************************************)
(* The audio decoding loop over long payloads (SpecDecode)                 *)
(***************************************************************************)
MaxChunks == 1

\* payload lengths: up to MaxChunks full reads plus a tail around the period
\* of the mask
PayloadLens == {c * 32768 + t : c \in 0..MaxChunks, t \in {0, 1, 100, 255, 256, 257}}

DecodeKeys == {<<1, 2, 3, 4>>, <<255>>, <<0, 128>>}

\* the state at line 172: header, key, metadata and image of the container
\* read, the key box derived
InitDecode ==
    /\ \E key \in DecodeKeys, n \in PayloadLens : file = FileOfKey(key, n)
    /\ ffmpeg_path = FALSE
    /\ pc = "decode"
    /\ pos = 14 + file.keyLen + 4 + file.metaLen + 13 + file.imgLen
    /\ audio_start = pos
    /\ key_data = Drop(Unpad(file.keyPlain), 17)
    /\ key_box = KeyBoxOf(key_data)
    /\ i = 256
    /\ last_byte = KsaRun(KsaStart, key_data, 256).last
    /\ key_offset = KsaRun(KsaStart, key_data, 256).off
    /\ meta_data = file.meta
    /\ image_data = 0
    /\ m = <<>>
    /\ chunk_length = 0
    /\ err = NoErr
    /\ out = NoFile
    /\ short = {}
    /\ MuxIdle
    /\ BatchIdle

NextDecode == ReadChunk

SpecDecode == InitDecode /\ [][NextDecode]_vars

\* C8: the payload is read in order in chunks of at most 32768 bytes; each
\* chunk is decoded to as many bytes with the position counter restarting at
\* 1, plaintext[i-1] = ciphertext[i-1] XOR box[(box[j] + box[(box[j] + j) &
\* 0xFF]) & 0xFF], j = i & 0xFF; the decoded audio is the chunks in read
\* order, as long as the payload, and the key box is left as derived.
C8_ChunkedDecode ==
    /\ chunk_length <= 32768
    /\ Len(m) = pos - audio_start
    /\ pc = "write" => Len(m) = file.size - audio_start
    /\ key_box = KeyBoxOf(key_data)
    /\ LET mask == [j \in Byte |->
                      key_box[(key_box[j] + key_box[(key_box[j] + j) % 256]) % 256]]
       IN \A g \in 1..Len(m) :
             m[g] = Xor(FileByte(file, audio_start + g),
                        mask[(((g - 1) % 32768) + 1) % 256])

C8_Witness ==
    /\ pc = "write"
    /\ chunk_length = 0
    /\ Len(m) = 32768 + 257

\* C9: the read size is a multiple of 256, so the restart of the position
\* counter at each chunk cannot be observed: the decoded byte at payload
\* offset g (from 0) is ciphertext[g] XOR mask((g + 1) & 0xFF), as for a
\* decoder that never resets its counter.
C9_ResetUnobservable ==
    LET mask == [j \in Byte |->
                   key_box[(key_box[j] + key_box[(key_box[j] + j) % 256]) % 256]]
    IN \A g \in 0..(Len(m) - 1) :
          m[g + 1] = Xor(FileByte(file, audio_start + g + 1), mask[(g + 1) % 256])

C9_Witness ==
    /\ Len(m) > 32768
    /\ chunk_length \notin {0, 32768}
    /\ \E g \in 1..255 : Mask(key_box, g) # Mask(key_box, (g + 100) % 256)

(***************************************************************************)
(* merge_audio_with_cover and the muxing process (SpecMux)                 *)
(*                                                                         *)
(* Blobs and pipe buffers are counted in writes of DEFAULT_CHUNK_SIZE      *)
(* bytes.  The muxing process is the black box of the interface: it opens  *)
(* the two pipes and reads them to their ends in an order of its choice,   *)
(* one blocking read at a time, and exits with code 0.                     *)
(***************************************************************************)
MaxBlob == 2

\* create_pipe: nOutBufferSize = nInBufferSize = DEFAULT_CHUNK_SIZE, the size
\* of one WriteFile of connect_and_write_pipe
PipeCap == 1

\* dump_single_file not entered
ConvIdle ==
    /\ file = [header |-> <<>>, keyLen |-> 0, keyPlain |-> <<>>, metaLen |-> 0,
               meta |-> "raise", imgLen |-> 0, seed |-> 0, size |-> 0]
    /\ ffmpeg_path = TRUE
    /\ pc = "idle"
    /\ pos = 0
    /\ key_data = <<>>
    /\ key_box = NoBox
    /\ i = 0
    /\ last_byte = 0
    /\ key_offset = 0
    /\ meta_data = "none"
    /\ image_data = 0
    /\ audio_start = 0
    /\ m = <<>>
    /\ chunk_length = 0
    /\ err = NoErr
    /\ out = NoFile
    /\ short = {}

\* lines 88-89: the image pipe is served to its end, then the audio pipe
MuxOrder == <<"img", "audio">>

\* the position after channel number k of MuxOrder is closed
AfterChannel(k) ==
    IF k < Len(MuxOrder) THEN [at |-> "connect", ch |-> k + 1]
    ELSE [at |-> "wait", ch |-> 0]

\* lines 84-87: create_pipe twice, subprocess.Popen
Launch ==
    /\ mux_pc = [at |-> "start", ch |-> 0]
    /\ pipe_srv' = [c \in Channels |-> "created"]
    /\ proc_exit' = "running"
    /\ mux_pc' = [at |-> "connect", ch |-> 1]
    /\ UNCHANGED <<blob_left, pipe_buf, proc_cli, proc_want>>
    /\ UNCHANGED <<convVars, batchVars>>

\* line 70: ConnectNamedPipe returns once the process has opened the pipe
Connect ==
    /\ mux_pc.at = "connect"
    /\ proc_cli[MuxOrder[mux_pc.ch]] # "none"
    /\ pipe_srv' = [pipe_srv EXCEPT ![MuxOrder[mux_pc.ch]] = "connected"]
    /\ mux_pc' = [mux_pc EXCEPT !.at = "write"]
    /\ UNCHANGED <<blob_left, pipe_buf, proc_cli, proc_want, proc_exit>>
    /\ UNCHANGED <<convVars, batchVars>>

\* lines 72-73: one WriteFile, which returns once the pipe buffer takes it
Write ==
    /\ mux_pc.at = "write"
    /\ LET c == MuxOrder[mux_pc.ch]
       IN /\ blob_left[c] > 0
          /\ pipe_buf[c] < PipeCap
          /\ blob_left' = [blob_left EXCEPT ![c] = @ - 1]
          /\ pipe_buf' = [pipe_buf EXCEPT ![c] = @ + 1]
    /\ UNCHANGED <<mux_pc, pipe_srv, proc_cli, proc_want, proc_exit>>
    /\ UNCHANGED <<convVars, batchVars>>

\* line 74: CloseHandle after the last write
Close ==
    /\ mux_pc.at = "write"
    /\ blob_left[MuxOrder[mux_pc.ch]] = 0
    /\ pipe_srv' = [pipe_srv EXCEPT ![MuxOrder[mux_pc.ch]] = "closed"]
    /\ mux_pc' = AfterChannel(mux_pc.ch)
    /\ UNCHANGED <<blob_left, pipe_buf, proc_cli, proc_want, proc_exit>>
    /\ UNCHANGED <<convVars, batchVars>>

\* line 90: assert proc.wait() == 0
Wait ==
    /\ mux_pc.at = "wait"
    /\ proc_exit \notin {"none", "running"}
    /\ mux_pc' = [at |-> IF proc_exit = "0" THEN "done" ELSE "failed", ch |-> 0]
    /\ UNCHANGED <<blob_left, pipe_buf, pipe_srv, proc_cli, proc_want, proc_exit>>
    /\ UNCHANGED <<convVars, batchVars>>

\* the process opens a pipe: the open succeeds as soon as the pipe exists
ProcOpen(c) ==
    /\ proc_exit = "running"
    /\ proc_want = "none"
    /\ proc_cli[c] = "none"
    /\ pipe_srv[c] # "none"
    /\ proc_cli' = [proc_cli EXCEPT ![c] = "open"]
    /\ UNCHANGED <<mux_pc, blob_left, pipe_buf, pipe_srv, proc_want, proc_exit>>
    /\ UNCHANGED <<convVars, batchVars>>

\* the process starts a blocking read on an open pipe
ProcWant(c) ==
    /\ proc_exit = "running"
    /\ proc_want = "none"
    /\ proc_cli[c] = "open"
    /\ proc_want' = c
    /\ UNCHANGED <<mux_pc, blob_left, pipe_buf, pipe_srv, proc_cli, proc_exit>>
    /\ UNCHANGED <<convVars, batchVars>>

\* the read returns data
ProcRead ==
    /\ proc_want # "none"
    /\ pipe_buf[proc_want] > 0
    /\ pipe_buf' = [pipe_buf EXCEPT ![proc_want] = @ - 1]
    /\ proc_want' = "none"
    /\ UNCHANGED <<mux_pc, blob_left, pipe_srv, proc_cli, proc_exit>>
    /\ UNCHANGED <<convVars, batchVars>>

\* the read meets the end of the stream: the buffer is drained and the
\* server handle closed
ProcEof ==
    /\ proc_want # "none"
    /\ pipe_buf[proc_want] = 0
    /\ pipe_srv[proc_want] = "closed"
    /\ proc_cli' = [proc_cli EXCEPT ![proc_want] = "eof"]
    /\ proc_want' = "none"
    /\ UNCHANGED <<mux_pc, blob_left, pipe_buf, pipe_srv, proc_exit>>
    /\ UNCHANGED <<convVars, batchVars>>

\* both inputs read to their ends: the process exits, with code 0 when it has
\* written the output
ProcExit ==
    /\ proc_exit = "running"
    /\ \A c \in Channels : proc_cli[c] = "eof"
    /\ proc_exit' \in {"0", "1"}
    /\ UNCHANGED <<mux_pc, blob_left, pipe_buf, pipe_srv, proc_cli, proc_want>>
    /\ UNCHANGED <<convVars, batchVars>>

\* line 77: blob_cover_img and blob_audio of any size up to MaxBlob writes
InitMux ==
    /\ ConvIdle
    /\ BatchIdle
    /\ mux_pc = [at |-> "start", ch |-> 0]
    /\ blob_left \in [Channels -> 0..MaxBlob]
    /\ pipe_buf = [c \in Channels |-> 0]
    /\ pipe_srv = [c \in Channels |-> "none"]
    /\ proc_cli = [c \in Channels |-> "none"]
    /\ proc_want = "none"
    /\ proc_exit = "none"

NextMux ==
    \/ Launch
    \/ Connect
    \/ Write
    \/ Close
    \/ Wait
    \/ \E c \in Channels : ProcOpen(c)
    \/ \E c \in Channels : ProcWant(c)
    \/ ProcRead
    \/ ProcEof
    \/ ProcExit

SpecMux == InitMux /\ [][NextMux]_vars

\* the bridge is blocked on channel c: in ConnectNamedPipe with the pipe not
\* opened, or in WriteFile with the buffer full
BridgeBlockedOn(c) ==
    /\ mux_pc.at \in {"connect", "write"}
    /\ MuxOrder[mux_pc.ch] = c
    /\ \/ mux_pc.at = "connect" /\ proc_cli[c] = "none"
       \/ mux_pc.at = "write" /\ blob_left[c] > 0 /\ pipe_buf[c] = PipeCap

\* the process is blocked in a read on channel c
ProcBlockedOn(c) ==
    /\ proc_want = c
    /\ pipe_buf[c] = 0
    /\ pipe_srv[c] # "closed"

\* C1: whatever the order in which the process opens and reads the two
\* channels and whatever the blob sizes, the bridge is never blocked on one
\* channel while the process is blocked waiting for the other.
C1_NoCrossChannelDeadlock ==
    \A c, d \in Channels :
        c # d => ~(BridgeBlockedOn(c) /\ ProcBlockedOn(d))

(***************************************************************************)
(* dump: two batch runs over the same files (SpecBatch)                    *)
(*                                                                         *)
(* A file of the batch is [dir, base, kind, fmt, ok]: its source folder    *)
(* and base name (numbered), whether dump_single_file returns before the   *)
(* existence check ("old": created before after_timestamp; "other": no     *)
(* .ncm suffix), the format tag of its metadata, and whether lines 114-186 *)
(* run without an exception.  An output file is <<folder, base, ext>>;     *)
(* folder 0 is the folder given as target_folder.                          *)
(***************************************************************************)
MaxFiles == 2

MaxDirs == 2

MaxBases == 2

Formats == {"mp3", "flac", "ogg"}

Catalogue ==
    {[dir |-> d, base |-> b, kind |-> "ncm", fmt |-> t, ok |-> k] :
        d \in 1..MaxDirs, b \in 1..MaxBases, t \in Formats, k \in BOOLEAN}
    \cup
    {[dir |-> d, base |-> b, kind |-> x, fmt |-> "mp3", ok |-> TRUE] :
        d \in 1..MaxDirs, b \in 1..MaxBases, x \in {"old", "other"}}

PathNo(f) == (f.dir - 1) * MaxBases + f.base

\* all_filepaths: list_filepaths gives each path once; taken in path order
FileLists ==
    UNION {{q \in [1..n -> Catalogue] :
               \A k \in 1..(n - 1) : PathNo(q[k]) < PathNo(q[k + 1])}
           : n \in 1..MaxFiles}

\* target_folder or os.path.dirname(fp)
FolderOf(f) == IF target_folder = "none" THEN f.dir ELSE 0

\* os.path.join(target_folder, f'{filename}.{meta_data["format"]}')
TargetOf(f) == <<FolderOf(f), f.base, f.fmt>>

\* for ftype in ['mp3', 'flac']: if os.path.isfile(fname)
SkipExts == {"mp3", "flac"}

OutputExists(f) == \E ext \in SkipExts : <<FolderOf(f), f.base, ext>> \in fs

\* Pool.starmap cuts the list in chunks of ceil(len / (4 * processes)) tasks
ChunkSize(n, workers) ==
    (n \div (4 * workers)) + (IF n % (4 * workers) = 0 THEN 0 ELSE 1)

RECURSIVE ChunksFrom(_, _, _)
ChunksFrom(k, n, size) ==
    IF k > n THEN <<>>
    ELSE <<[j \in 1..(Min(n, k + size - 1) - k + 1) |-> k + j - 1]>>
         \o ChunksFrom(k + size, n, size)

\* lines 225-233: the work of a run as set out at its start: the pool's task
\* queue, or the for loop over all files in the main process
RunStart(files, workers) ==
    [taskq |-> IF workers > 1
               THEN ChunksFrom(1, Len(files), ChunkSize(Len(files), workers))
               ELSE <<>>,
     wtask |-> [w \in 1..MaxWorkers |->
                  IF workers = 1 /\ w = 1 THEN [j \in 1..Len(files) |-> j]
                  ELSE <<>>]]

\* a pool worker takes the next chunk of tasks
TakeTask(w) ==
    /\ status = "running"
    /\ w <= n_workers
    /\ wpc[w] = "idle"
    /\ wtask[w] = <<>>
    /\ taskq # <<>>
    /\ wtask' = [wtask EXCEPT ![w] = Head(taskq)]
    /\ taskq' = Tail(taskq)
    /\ UNCHANGED <<all_filepaths, n_workers, target_folder, fs, run, status,
                   first_status, wpc, wcur, dispatched, converting, writes,
                   task_error>>
    /\ UNCHANGED <<convVars, muxVars>>

\* lines 207 and 233: dump_single_file is called for the next file
Dispatch(w) ==
    /\ status = "running"
    /\ w <= n_workers
    /\ wpc[w] = "idle"
    /\ wtask[w] # <<>>
    /\ wcur' = [wcur EXCEPT ![w] = Head(wtask[w])]
    /\ wtask' = [wtask EXCEPT ![w] = Tail(wtask[w])]
    /\ wpc' = [wpc EXCEPT ![w] = "check"]
    /\ dispatched' = dispatched \cup {Head(wtask[w])}
    /\ UNCHANGED <<all_filepaths, n_workers, target_folder, fs, run, status,
                   first_status, taskq, converting, writes, task_error>>
    /\ UNCHANGED <<convVars, muxVars>>

\* lines 100-114: the early returns, or log.info('Converting ...')
SkipCheck(f) == f.kind # "ncm" \/ OutputExists(f)

Check(w) ==
    /\ status = "running"
    /\ wpc[w] = "check"
    /\ IF SkipCheck(all_filepaths[wcur[w]])
       THEN /\ wpc' = [wpc EXCEPT ![w] = "idle"]
            /\ UNCHANGED converting
       ELSE /\ wpc' = [wpc EXCEPT ![w] = "convert"]
            /\ converting' = converting \cup {<<run, wcur[w]>>}
    /\ UNCHANGED <<all_filepaths, n_workers, target_folder, fs, run, status,
                   first_status, taskq, wtask, wcur, dispatched, writes,
                   task_error>>
    /\ UNCHANGED <<convVars, muxVars>>

\* lines 116-184: the container is parsed and decoded in memory; an exception
\* is not caught (line 193 catches KeyboardInterrupt alone): it ends the for
\* loop and dump with it, or the worker's chunk of tasks
Convert(w) ==
    /\ status = "running"
    /\ wpc[w] = "convert"
    /\ IF all_filepaths[wcur[w]].ok
       THEN /\ wpc' = [wpc EXCEPT ![w] = "write"]
            /\ UNCHANGED <<status, wtask, task_error>>
       ELSE /\ wpc' = [wpc EXCEPT ![w] = "idle"]
            /\ wtask' = [wtask EXCEPT ![w] = <<>>]
            /\ task_error' = TRUE
            /\ status' = IF n_workers > 1 THEN status ELSE "crashed"
    /\ UNCHANGED <<all_filepaths, n_workers, target_folder, fs, run,
                   first_status, taskq, wcur, dispatched, converting, writes>>
    /\ UNCHANGED <<convVars, muxVars>>

\* lines 185-191: the output file is written
WriteFile(w) ==
    /\ status = "running"
    /\ wpc[w] = "write"
    /\ fs' = fs \cup {TargetOf(all_filepaths[wcur[w]])}
    /\ writes' = Append(writes, TargetOf(all_filepaths[wcur[w]]))
    /\ wpc' = [wpc EXCEPT ![w] = "idle"]
    /\ UNCHANGED <<all_filepaths, n_workers, target_folder, run, status,
                   first_status, taskq, wtask, wcur, dispatched, converting,
                   task_error>>
    /\ UNCHANGED <<convVars, muxVars>>

\* lines 228 and 234: every task is over: starmap raises the first exception
\* of a task, or log.info('All finished')
Finish ==
    /\ status = "running"
    /\ taskq = <<>>
    /\ \A w \in 1..MaxWorkers : wpc[w] = "idle" /\ wtask[w] = <<>>
    /\ status' = IF task_error THEN "crashed" ELSE "finished"
    /\ UNCHANGED <<all_filepaths, n_workers, target_folder, fs, run,
                   first_status, taskq, wtask, wpc, wcur, dispatched,
                   converting, writes, task_error>>
    /\ UNCHANGED <<convVars, muxVars>>

\* lines 193-195: KeyboardInterrupt inside dump_single_file: quit()
Interrupt ==
    /\ status = "running"
    /\ \E w \in 1..MaxWorkers : wpc[w] # "idle"
    /\ status' = "cancelled"
    /\ UNCHANGED <<all_filepaths, n_workers, target_folder, fs, run,
                   first_status, taskq, wtask, wpc, wcur, dispatched,
                   converting, writes, task_error>>
    /\ UNCHANGED <<convVars, muxVars>>

\* the batch is run again on the same paths, with the files the first run left
SecondRun ==
    /\ run = 1
    /\ status \in {"finished", "crashed", "cancelled"}
    /\ run' = 2
    /\ first_status' = status
    /\ status' = "running"
    /\ taskq' = RunStart(all_filepaths, n_workers).taskq
    /\ wtask' = RunStart(all_filepaths, n_workers).wtask
    /\ wpc' = [w \in 1..MaxWorkers |-> "idle"]
    /\ wcur' = [w \in 1..MaxWorkers |-> 0]
    /\ dispatched' = {}
    /\ writes' = <<>>
    /\ task_error' = FALSE
    /\ UNCHANGED <<all_filepaths, n_workers, target_folder, fs, converting>>
    /\ UNCHANGED <<convVars, muxVars>>

\* line 224 of the first run, no output file written yet
InitBatch ==
    /\ ConvIdle
    /\ MuxIdle
    /\ all_filepaths \in FileLists
    /\ n_workers \in 1..MaxWorkers
    /\ target_folder \in {"none", "target"}
    /\ fs = {}
    /\ run = 1
    /\ status = "running"
    /\ first_status = "none"
    /\ taskq = RunStart(all_filepaths, n_workers).taskq
    /\ wtask = RunStart(all_filepaths, n_workers).wtask
    /\ wpc = [w \in 1..MaxWorkers |-> "idle"]
    /\ wcur = [w \in 1..MaxWorkers |-> 0]
    /\ dispatched = {}
    /\ converting = {}
    /\ writes = <<>>
    /\ task_error = FALSE

NextBatch ==
    \/ \E w \in 1..MaxWorkers : TakeTask(w)
    \/ \E w \in 1..MaxWorkers : Dispatch(w)
    \/ \E w \in 1..MaxWorkers : Check(w)
    \/ \E w \in 1..MaxWorkers : Convert(w)
    \/ \E w \in 1..MaxWorkers : WriteFile(w)
    \/ Finish
    \/ Interrupt
    \/ SecondRun

SpecBatch == InitBatch /\ [][NextBatch]_vars

\* C2: a batch that ends without a cancellation has dispatched every file of
\* the list to dump_single_file, whatever failed in the conversion of the
\* others, in the sequential loop and in the worker pool.
C2_FailureIsolated ==
    status \in {"finished", "crashed"}
        => dispatched = 1..Len(all_filepaths)

\* C3: a second run after a completed first run over containers that all
\* convert performs no conversion, whatever the format tags: every file is
\* skipped by the existing-output check.
C3_SecondRunConvertsNothing ==
    /\ run = 2
    /\ first_status = "finished"
    /\ \A k \in 1..Len(all_filepaths) :
          all_filepaths[k].kind = "ncm" /\ all_filepaths[k].ok
    => \A k \in 1..Len(all_filepaths) : <<2, k>> \notin converting

\* C10: within one run no output path is written by more than one
\* conversion, with one worker or several (here for files whose format tags
\* are all among the extensions of the existing-output check).
C10_OutputWrittenOnce ==
    (\A k \in 1..Len(all_filepaths) : all_filepaths[k].fmt \in {"mp3", "flac"})
        => \A a, b \in 1..Len(writes) : a # b => writes[a] # writes[b]

====
